---- MODULE Spec2Model ----
(***************************************************************************)
(* Model of the read-sizer AWS Batch orchestrator (submit_batch_jobs.py):  *)
(* main submits one job per sample, monitor_jobs polls describe_jobs and   *)
(* retries FAILED jobs up to max_retries times.                            *)
(*                                                                         *)
(* job_tracker is a Python dict: it is modelled as the sequence of its     *)
(* entries in insertion order, each entry carrying its key (job_id).       *)
(* Samples are identified by their id, a number 1..MaxUnits.  Handles the  *)
(* Batch Runner returns are numbers 1..NumHandles; the placeholder handle  *)
(* of a dry run is derived from the sample id and lies outside that range. *)
(* The Batch Runner is a black box: every describe_jobs call reports, for  *)
(* each queried handle, whatever status the job has by then.  The code     *)
(* drops a handle as soon as it reports SUCCEEDED or FAILED, so no handle  *)
(* is queried again after a terminal status and the statuses of successive *)
(* calls are independent choices.  A response holds one result per queried *)
(* handle; the order of the results and the status each carries are the    *)
(* Batch Runner's, and are drawn when the for loop reaches the result.     *)
(* Every non-terminal AWS status (SUBMITTED, PENDING, RUNNABLE, STARTING,  *)
(* RUNNING) takes neither branch of the code and is written "RUNNING".     *)
(***************************************************************************)
EXTENDS Integers, Sequences, FiniteSets, TLC

\* ---- bounds of the model ----
MaxUnits == 2
MaxRetriesBound == 1

\* ---- program constant: describe_jobs takes up to 100 ids per call ----
BatchSize == 100

Units == 1..MaxUnits
NumHandles == MaxUnits + 1
Handles == 1..NumHandles

VARIABLES
    samples,          \* main: the list of samples (their ids), in order
    max_retries,      \* args.max_retries
    dry_run,          \* args.dry_run
    pc,               \* position of the single thread of control
    k,                \* main: index of the next sample of `for sample in samples`
    job_tracker,      \* dict job_id -> {sample, retry_count}, insertion-ordered
    job_ids,          \* monitor_jobs: list(job_tracker.keys()) of this round
    i,                \* monitor_jobs: offset of the current batch in job_ids
    response,         \* monitor_jobs: jobIds of the results of response['jobs'] not yet iterated
    queries,          \* the batch_ids of the describe_jobs calls of this round, in order
    active,           \* entries whose job reported a non-terminal status in this round
    repoll,           \* entries that did so in the round before, not queried since
    submit_calls,     \* number of batch_client.submit_job calls made per sample
    stdout,           \* per sample, how many lines of each kind were printed
    done_retry_count, \* per sample, retry_count of the entry deleted at its outcome
    last_call,        \* the most recent Batch Runner call and how it ended
    error,            \* the exception that ended the process, if any
    handle_reused,    \* some submission returned a handle that was tracked then
    entry_units,      \* samples tracked when monitor_jobs was entered
    final_line,       \* what main printed last before exiting
    \* generate_samplesheet (scripts/generate_samplesheet.py)
    bucket,           \* args.bucket
    delivery,         \* args.delivery
    outdir,           \* args.outdir: None, or the string given
    ignore_existing,  \* args.ignore_existing
    gpc,              \* position of generate_samplesheet
    raw_files,        \* list_s3_files(raw_dir, ...)
    siz_files,        \* list_s3_files(siz_dir, ...)
    s3_calls,         \* the list_s3_files calls made, in order
    sheet,            \* the list generate_samplesheet returns
    warned            \* ids of the "Incomplete pair" warnings written to stderr

vars == <<samples, max_retries, dry_run, pc, k, job_tracker, job_ids, i, response,
          queries, active, repoll, submit_calls, stdout, done_retry_count, last_call, error,
          handle_reused, entry_units, final_line,
          bucket, delivery, outdir, ignore_existing, gpc, raw_files, siz_files,
          s3_calls, sheet, warned>>

\* ---- the dict operations the code uses on job_tracker ----
Keys(t) == {t[j].job_id : j \in 1..Len(t)}

KeyList(t) == [j \in 1..Len(t) |-> t[j].job_id]

Has(t, job_id) == job_id \in Keys(t)

\* (variant: the entry is taken by position, not by key)
GetFirst(t, job_id) == t[1]

Get(t, job_id) == t[CHOOSE j \in 1..Len(t) : t[j].job_id = job_id]

Entry(job_id, sample, retry_count) ==
    [job_id |-> job_id, sample |-> sample, retry_count |-> retry_count]

\* job_tracker[job_id] = {...}: an existing key keeps its position
DictSet(t, job_id, sample, retry_count) ==
    IF Has(t, job_id)
    THEN [j \in 1..Len(t) |-> IF t[j].job_id = job_id
                              THEN Entry(job_id, sample, retry_count)
                              ELSE t[j]]
    ELSE Append(t, Entry(job_id, sample, retry_count))

\* del job_tracker[job_id]
DictDel(t, job_id) == SelectSeq(t, LAMBDA e : e.job_id # job_id)

TrackedSamples(t) == {t[j].sample : j \in 1..Len(t)}

EntriesOf(t, sample) == {j \in 1..Len(t) : t[j].sample = sample}

\* ---- submit_batch_job ----
\* (variant: the placeholder leaves the sample id out)
DryRunHandleNoId(sample) == 0 - 1

\* f"dry-run-{sample['id']}": one placeholder per sample id, never a Batch Runner handle
DryRunHandle(sample) == 0 - sample

\* the handles batch_client.submit_job may return: any handle at all, or (the
\* Batch Runner's contract of one fresh handle per submission) any handle that
\* is not tracked at the time of the call
NewHandles(any) == IF any THEN Handles ELSE Handles \ Keys(job_tracker)

\* ---- monitor_jobs, the pure parts ----
\* (variant: the loop ends while one entry is still tracked)
LoopConditionMoreThanOne(t) == Len(t) > 1

\* while job_tracker:
LoopCondition(t) == t # << >>

\* (variant: the slice stops one element short)
BatchIdsShort(ids, off) ==
    [j \in 1..((IF Len(ids) - off < BatchSize THEN Len(ids) - off ELSE BatchSize) - 1)
        |-> ids[off + j]]

\* job_ids[i:i+100]
BatchIds(ids, off) ==
    [j \in 1..(IF Len(ids) - off < BatchSize THEN Len(ids) - off ELSE BatchSize)
        |-> ids[off + j]]

\* (variants: the comparison is <=, or the budget is not consulted)
ShouldRetryInclusive(retry_count) == retry_count <= max_retries

ShouldRetryAlways(retry_count) == TRUE

\* if retry_count < max_retries
ShouldRetry(retry_count) == retry_count < max_retries

\* (variants: the old entry is kept; the retry_count is carried over unchanged)
ResubmittedKeepsOld(t, job_id, new_job_id) ==
    DictSet(t, new_job_id, Get(t, job_id).sample, Get(t, job_id).retry_count + 1)

ResubmittedSameCount(t, job_id, new_job_id) ==
    DictDel(DictSet(t, new_job_id, Get(t, job_id).sample,
                    Get(t, job_id).retry_count), job_id)

\* job_tracker[new_job_id] = {"sample": sample, "retry_count": retry_count + 1}
\* del job_tracker[job_id]
Resubmitted(t, job_id, new_job_id) ==
    DictDel(DictSet(t, new_job_id, Get(t, job_id).sample,
                    Get(t, job_id).retry_count + 1), job_id)

\* (variant: the entry is not deleted)
RemovedNothing(t, job_id) == t

\* del job_tracker[job_id] of the SUCCEEDED and the permanent-failure branch
Removed(t, job_id) == DictDel(t, job_id)

Statuses == {"SUCCEEDED", "FAILED", "RUNNING"}

\* the body of `for job_info in response['jobs']` as a function: job_tracker after
\* the result (job_id, status), new_job_id being what a resubmission returns
HandleResult(t, job_id, status, new_job_id) ==
    IF status = "SUCCEEDED" THEN Removed(t, job_id)
    ELSE IF status = "FAILED"
         THEN IF ShouldRetry(Get(t, job_id).retry_count)
              THEN Resubmitted(t, job_id, new_job_id)
              ELSE Removed(t, job_id)
         ELSE t

\* batch_client.describe_jobs(jobs=batch_ids)['jobs']: one result per queried handle
DescribeJobs(batch_ids) == {batch_ids[j] : j \in 1..Len(batch_ids)}

Line(s, r, f) == [succeeded |-> s, retrying |-> r, failed |-> f]

\* samples were read from args.sample_sheet: generate_samplesheet is not called
SheetNotGenerated ==
    /\ bucket = << >>
    /\ delivery = << >>
    /\ outdir = [given |-> FALSE, path |-> << >>]
    /\ ignore_existing = FALSE
    /\ gpc = "not_called"
    /\ raw_files = << >>
    /\ siz_files = << >>
    /\ s3_calls = << >>
    /\ sheet = << >>
    /\ warned = << >>

\* ---- initial state: main after argument parsing and sample loading ----
Init ==
    /\ \E n \in 0..MaxUnits : samples = [j \in 1..n |-> j]
    /\ max_retries \in 0..MaxRetriesBound
    /\ dry_run \in BOOLEAN
    /\ pc = "main"
    /\ k = 1
    /\ job_tracker = << >>
    /\ job_ids = << >>
    /\ i = 0
    /\ response = {}
    /\ queries = << >>
    /\ active = {}
    /\ repoll = {}
    /\ submit_calls = [u \in Units |-> 0]
    /\ stdout = [u \in Units |-> Line(0, 0, 0)]
    /\ done_retry_count = [u \in Units |-> -1]
    /\ last_call = "none"
    /\ error = "none"
    /\ handle_reused = FALSE
    /\ entry_units = {}
    /\ final_line = [text |-> "", counts |-> << >>]
    /\ SheetNotGenerated

\* args and what was resolved before the submissions, fixed from then on
resolver == <<bucket, delivery, outdir, ignore_existing, gpc, raw_files, siz_files,
              s3_calls, sheet, warned>>
config == <<samples, max_retries, dry_run, resolver>>
polled == <<queries, active, repoll>>
round == <<job_ids, i, response, polled>>
history == <<submit_calls, stdout, done_retry_count, last_call, error,
             handle_reused, entry_units, final_line>>

\* ---- main ----
\* if not samples: print("No samples to process"); sys.exit(0)
MainNoSamples ==
    /\ pc = "main"
    /\ samples = << >>
    /\ pc' = "exit"
    /\ final_line' = [text |-> "No samples to process", counts |-> << >>]
    /\ UNCHANGED <<config, k, job_tracker, round, submit_calls, stdout,
                   done_retry_count, last_call, error, handle_reused, entry_units>>

\* batch_client = boto3.client('batch'); job_tracker = {}
MainStartSubmitting ==
    /\ pc = "main"
    /\ samples # << >>
    /\ pc' = "main_submit"
    /\ job_tracker' = << >>
    /\ k' = 1
    /\ UNCHANGED <<config, round, history>>

\* one iteration of `for sample in samples` in dry mode
MainSubmitDry ==
    /\ pc = "main_submit"
    /\ k <= Len(samples)
    /\ dry_run
    /\ job_tracker' = DictSet(job_tracker, DryRunHandle(samples[k]), samples[k], 0)
    /\ k' = k + 1
    /\ UNCHANGED <<config, pc, round, history>>

\* one iteration of `for sample in samples`: submit_job returns job_id
MainSubmit(any) ==
    /\ pc = "main_submit"
    /\ k <= Len(samples)
    /\ ~dry_run
    /\ \E job_id \in NewHandles(any) :
        /\ job_tracker' = DictSet(job_tracker, job_id, samples[k], 0)
        /\ handle_reused' = (handle_reused \/ Has(job_tracker, job_id))
    /\ submit_calls' = [submit_calls EXCEPT ![samples[k]] = @ + 1]
    /\ last_call' = "submit_job"
    /\ k' = k + 1
    /\ UNCHANGED <<config, pc, round, stdout, done_retry_count, error,
                   entry_units, final_line>>

\* one iteration of `for sample in samples`: submit_job raises
MainSubmitFails ==
    /\ pc = "main_submit"
    /\ k <= Len(samples)
    /\ ~dry_run
    /\ submit_calls' = [submit_calls EXCEPT ![samples[k]] = @ + 1]
    /\ last_call' = "submit_job_error"
    /\ error' = "submit_job"
    /\ pc' = "raised"
    /\ UNCHANGED <<config, k, job_tracker, round, stdout, done_retry_count,
                   handle_reused, entry_units, final_line>>

\* if args.dry_run: print("Dry run complete ..."); sys.exit(0)
MainDryRunExit ==
    /\ pc = "main_submit"
    /\ k > Len(samples)
    /\ dry_run
    /\ pc' = "exit"
    /\ final_line' = [text |-> "Dry run complete - no jobs were actually submitted",
                      counts |-> << >>]
    /\ UNCHANGED <<config, k, job_tracker, round, submit_calls, stdout,
                   done_retry_count, last_call, error, handle_reused, entry_units>>

\* monitor_jobs(batch_client, job_tracker, args.max_retries, ...)
MainCallMonitor ==
    /\ pc = "main_submit"
    /\ k > Len(samples)
    /\ ~dry_run
    /\ pc' = "while"
    /\ entry_units' = TrackedSamples(job_tracker)
    /\ UNCHANGED <<config, k, job_tracker, round, submit_calls, stdout,
                   done_retry_count, last_call, error, handle_reused, final_line>>

\* print("\nAll jobs completed!")
MainAllCompleted ==
    /\ pc = "returned"
    /\ pc' = "exit"
    /\ final_line' = [text |-> "All jobs completed!", counts |-> << >>]
    /\ UNCHANGED <<config, k, job_tracker, round, submit_calls, stdout,
                   done_retry_count, last_call, error, handle_reused, entry_units>>

\* ---- monitor_jobs ----
\* while job_tracker: false, the function returns
MonitorReturn ==
    /\ pc = "while"
    /\ ~LoopCondition(job_tracker)
    /\ pc' = "returned"
    /\ UNCHANGED <<config, k, job_tracker, round, history>>

\* (variant: the key list is taken once, in the first round, and kept)
MonitorStartRoundStale ==
    /\ pc = "while"
    /\ LoopCondition(job_tracker)
    /\ job_ids' = (IF job_ids = << >> THEN KeyList(job_tracker) ELSE job_ids)
    /\ i' = 0
    /\ response' = {}
    /\ queries' = << >>
    /\ repoll' = active
    /\ active' = {}
    /\ pc' = "for_batch"
    /\ UNCHANGED <<config, k, job_tracker, history>>

\* while job_tracker: true; time.sleep(5); job_ids = list(job_tracker.keys())
MonitorStartRound ==
    /\ pc = "while"
    /\ LoopCondition(job_tracker)
    /\ job_ids' = KeyList(job_tracker)
    /\ i' = 0
    /\ response' = {}
    /\ queries' = << >>
    /\ repoll' = active
    /\ active' = {}
    /\ pc' = "for_batch"
    /\ UNCHANGED <<config, k, job_tracker, history>>

\* for i in range(0, len(job_ids), 100): exhausted, back to the while condition
MonitorEndRound ==
    /\ pc = "for_batch"
    /\ i >= Len(job_ids)
    /\ pc' = "while"
    /\ UNCHANGED <<config, k, job_tracker, round, history>>

\* response = batch_client.describe_jobs(jobs=batch_ids)
MonitorDescribe ==
    /\ pc = "for_batch"
    /\ i < Len(job_ids)
    /\ response' = DescribeJobs(BatchIds(job_ids, i))
    /\ queries' = Append(queries, BatchIds(job_ids, i))
    /\ repoll' = {e \in repoll : e.job_id \notin DescribeJobs(BatchIds(job_ids, i))}
    /\ last_call' = "describe_jobs"
    /\ pc' = "for_info"
    /\ UNCHANGED <<config, k, job_tracker, job_ids, i, active, submit_calls, stdout,
                   done_retry_count, error, handle_reused, entry_units, final_line>>

\* (variant: the error of describe_jobs is swallowed and the loop goes on)
MonitorDescribeFailsSwallowed ==
    /\ pc = "for_batch"
    /\ i < Len(job_ids)
    /\ last_call' = "describe_jobs_error"
    /\ error' = "describe_jobs"
    /\ i' = i + BatchSize
    /\ queries' = Append(queries, BatchIds(job_ids, i))
    /\ repoll' = {e \in repoll : e.job_id \notin DescribeJobs(BatchIds(job_ids, i))}
    /\ UNCHANGED <<config, pc, k, job_tracker, job_ids, response, active, submit_calls, stdout,
                   done_retry_count, handle_reused, entry_units, final_line>>

\* batch_client.describe_jobs raises: nothing in monitor_jobs or main catches it
MonitorDescribeFails ==
    /\ pc = "for_batch"
    /\ i < Len(job_ids)
    /\ last_call' = "describe_jobs_error"
    /\ error' = "describe_jobs"
    /\ pc' = "raised"
    /\ queries' = Append(queries, BatchIds(job_ids, i))
    /\ repoll' = {e \in repoll : e.job_id \notin DescribeJobs(BatchIds(job_ids, i))}
    /\ UNCHANGED <<config, k, job_tracker, job_ids, i, response, active, submit_calls, stdout,
                   done_retry_count, handle_reused, entry_units, final_line>>

\* for job_info in response['jobs']: exhausted, next batch
MonitorNextBatch ==
    /\ pc = "for_info"
    /\ response = {}
    /\ i' = i + BatchSize
    /\ pc' = "for_batch"
    /\ UNCHANGED <<config, k, job_tracker, job_ids, response, polled, history>>

\* the for loop reaches the result of job_id, and job_tracker[job_id] is looked up
\* (job_info['jobId'] = job_id, job_info['status'] = status)
AtJobInfo(job_id, status) ==
    /\ pc = "for_info"
    /\ job_id \in response
    /\ status \in {"SUCCEEDED", "FAILED", "RUNNING"}
    /\ Has(job_tracker, job_id)

\* if status == 'SUCCEEDED': print, del job_tracker[job_id]
JobSucceeded(job_id) ==
    /\ AtJobInfo(job_id, "SUCCEEDED")
    /\ LET tracked == Get(job_tracker, job_id)
       IN  /\ stdout' = [stdout EXCEPT ![tracked.sample].succeeded = @ + 1]
           /\ done_retry_count' = [done_retry_count EXCEPT
                                      ![tracked.sample] = tracked.retry_count]
           /\ job_tracker' = Removed(job_tracker, job_id)
    /\ response' = response \ {job_id}
    /\ UNCHANGED <<config, pc, k, job_ids, i, polled, submit_calls, last_call, error,
                   handle_reused, entry_units, final_line>>

\* elif status == 'FAILED', retry_count < max_retries: print, submit, insert, delete
JobFailedRetry(job_id, any) ==
    /\ AtJobInfo(job_id, "FAILED")
    /\ LET tracked == Get(job_tracker, job_id)
       IN  /\ ShouldRetry(tracked.retry_count)
           /\ stdout' = [stdout EXCEPT ![tracked.sample].retrying = @ + 1]
           /\ submit_calls' = [submit_calls EXCEPT ![tracked.sample] = @ + 1]
           /\ \E new_job_id \in NewHandles(any) :
               /\ job_tracker' = Resubmitted(job_tracker, job_id, new_job_id)
               /\ handle_reused' = (handle_reused \/ Has(job_tracker, new_job_id))
    /\ last_call' = "submit_job"
    /\ response' = response \ {job_id}
    /\ UNCHANGED <<config, pc, k, job_ids, i, polled, done_retry_count, error,
                   entry_units, final_line>>

\* (variant: the old entry is deleted before the resubmission is attempted)
JobFailedRetrySubmitFailsEntryLost(job_id) ==
    /\ AtJobInfo(job_id, "FAILED")
    /\ LET tracked == Get(job_tracker, job_id)
       IN  /\ ShouldRetry(tracked.retry_count)
           /\ stdout' = [stdout EXCEPT ![tracked.sample].retrying = @ + 1]
           /\ submit_calls' = [submit_calls EXCEPT ![tracked.sample] = @ + 1]
    /\ job_tracker' = Removed(job_tracker, job_id)
    /\ last_call' = "submit_job_error"
    /\ error' = "submit_job"
    /\ pc' = "raised"
    /\ UNCHANGED <<config, k, job_ids, i, response, polled, done_retry_count,
                   handle_reused, entry_units, final_line>>

\* elif status == 'FAILED', retry_count < max_retries: print, submit_job raises
JobFailedRetrySubmitFails(job_id) ==
    /\ AtJobInfo(job_id, "FAILED")
    /\ LET tracked == Get(job_tracker, job_id)
       IN  /\ ShouldRetry(tracked.retry_count)
           /\ stdout' = [stdout EXCEPT ![tracked.sample].retrying = @ + 1]
           /\ submit_calls' = [submit_calls EXCEPT ![tracked.sample] = @ + 1]
    /\ last_call' = "submit_job_error"
    /\ error' = "submit_job"
    /\ pc' = "raised"
    /\ UNCHANGED <<config, k, job_tracker, job_ids, i, response, polled, done_retry_count,
                   handle_reused, entry_units, final_line>>

\* elif status == 'FAILED', else branch: print, del job_tracker[job_id]
JobFailedPermanently(job_id) ==
    /\ AtJobInfo(job_id, "FAILED")
    /\ LET tracked == Get(job_tracker, job_id)
       IN  /\ ~ShouldRetry(tracked.retry_count)
           /\ stdout' = [stdout EXCEPT ![tracked.sample].failed = @ + 1]
           /\ done_retry_count' = [done_retry_count EXCEPT
                                      ![tracked.sample] = tracked.retry_count]
           /\ job_tracker' = Removed(job_tracker, job_id)
    /\ response' = response \ {job_id}
    /\ UNCHANGED <<config, pc, k, job_ids, i, polled, submit_calls, last_call, error,
                   handle_reused, entry_units, final_line>>

\* (variant: a status that is not SUCCEEDED is taken as the end of the job)
JobStillActiveDropped(job_id) ==
    /\ AtJobInfo(job_id, "RUNNING")
    /\ job_tracker' = Removed(job_tracker, job_id)
    /\ response' = response \ {job_id}
    /\ active' = active \cup {Get(job_tracker, job_id)}
    /\ UNCHANGED <<config, pc, k, job_ids, i, queries, repoll, history>>

\* any other status: neither branch is taken
JobStillActive(job_id) ==
    /\ AtJobInfo(job_id, "RUNNING")
    /\ response' = response \ {job_id}
    /\ active' = active \cup {Get(job_tracker, job_id)}
    /\ UNCHANGED <<config, pc, k, job_tracker, job_ids, i, queries, repoll, history>>

Main(any) ==
    \/ MainNoSamples
    \/ MainStartSubmitting
    \/ MainSubmitDry
    \/ MainSubmit(any)
    \/ MainDryRunExit
    \/ MainCallMonitor
    \/ MainAllCompleted

Monitor(any) ==
    \/ MonitorReturn
    \/ MonitorStartRound
    \/ MonitorEndRound
    \/ MonitorDescribe
    \/ MonitorNextBatch
    \/ \E job_id \in response : JobSucceeded(job_id)
    \/ \E job_id \in response : JobFailedRetry(job_id, any)
    \/ \E job_id \in response : JobFailedPermanently(job_id)
    \/ \E job_id \in response : JobStillActive(job_id)

Failures ==
    \/ MainSubmitFails
    \/ MonitorDescribeFails
    \/ \E job_id \in response : JobFailedRetrySubmitFails(job_id)

\* the Batch Runner hands out a handle that is not tracked at the time
Next == Main(FALSE) \/ Monitor(FALSE) \/ Failures

Spec == Init /\ [][Next]_vars

\* the Batch Runner may hand out any handle, tracked or not
NextAnyHandle == Main(TRUE) \/ Monitor(TRUE) \/ Failures

SpecAnyHandle == Init /\ [][NextAnyHandle]_vars

\* ---- supervision in which no Batch Runner call raises ----
NextReliable == Main(FALSE) \/ Monitor(FALSE)

\* some polled job is reported SUCCEEDED or FAILED
TerminalReport ==
    \E job_id \in response :
        \/ JobSucceeded(job_id)
        \/ JobFailedRetry(job_id, FALSE)
        \/ JobFailedPermanently(job_id)

\* The single thread of control keeps running (sleep, describe_jobs and submit_job
\* return), and polling does not go on for ever without any job being reported
\* SUCCEEDED or FAILED (which is the least that follows from every submitted job
\* eventually reporting one of the two).
SpecReliable ==
    /\ Init
    /\ [][NextReliable]_vars
    /\ WF_vars(NextReliable)
    /\ SF_vars(TerminalReport)

\* ==================== monitor_jobs on a large tracker ====================
\* ---- bound: the number of jobs tracked when monitor_jobs is called ----
MaxTracked == 201

\* monitor_jobs is called with a tracker of n jobs, one per sample, none retried
InitPolling ==
    /\ samples = << >>
    /\ max_retries = MaxRetriesBound
    /\ dry_run = FALSE
    /\ pc = "while"
    /\ k = 1
    /\ \E n \in 0..MaxTracked : job_tracker = [j \in 1..n |-> Entry(j, j, 0)]
    /\ job_ids = << >>
    /\ i = 0
    /\ response = {}
    /\ queries = << >>
    /\ active = {}
    /\ repoll = {}
    /\ submit_calls = [u \in Units |-> 0]
    /\ stdout = [u \in Units |-> Line(0, 0, 0)]
    /\ done_retry_count = [u \in Units |-> -1]
    /\ last_call = "none"
    /\ error = "none"
    /\ handle_reused = FALSE
    /\ entry_units = TrackedSamples(job_tracker)
    /\ final_line = [text |-> "", counts |-> << >>]
    /\ SheetNotGenerated

\* the results of a response come in the order of the handles, and every job is
\* still running
JobStillActiveInOrder ==
    \E job_id \in response :
        /\ \A other \in response : job_id <= other
        /\ JobStillActive(job_id)

NextPolling ==
    \/ MonitorReturn
    \/ MonitorStartRound
    \/ MonitorEndRound
    \/ MonitorDescribe
    \/ MonitorNextBatch
    \/ JobStillActiveInOrder

SpecPolling == InitPolling /\ [][NextPolling]_vars

\* ==================== generate_samplesheet.py ====================
\* A string is the sequence of its pieces.  "/" is always a piece of its own and
\* no other piece holds a "/"; "_chunk", "_1.fastq.gz" and "_2.fastq.gz" are
\* pieces of their own and no other piece holds an "_" or ".fastq.gz"; so a
\* substring or suffix test on the pieces is the test on the characters.
R1Suffix == <<"_1.fastq.gz">>
R2Suffix == <<"_2.fastq.gz">>
ChunkMarker == <<"_chunk">>
RawSegment == <<"/", "raw", "/">>
SizSegment == <<"/", "siz", "/">>

\* ---- bound: the number of filenames of the raw listing ----
MaxRawFiles == 4

\* ---- inputs ----
Buckets == {<<"bkt">>}
Deliveries == {<<"d">>, <<"raw">>}
Outdirs == {[given |-> FALSE, path |-> << >>],
            [given |-> TRUE, path |-> << >>],
            [given |-> TRUE, path |-> <<"s3:", "/", "/", "out", "/", "res", "/">>]}
SampleIds == {<<"a">>, <<"a", "_chunk", "b">>}
RawNames == {id \o R1Suffix : id \in SampleIds} \cup {id \o R2Suffix : id \in SampleIds}
               \cup {<<"a", ".txt">>}
SizNames == {id \o ChunkMarker \o <<"0.fastq.zst">> : id \in SampleIds}
               \cup {<<"a", ".log">>}
RawListings == UNION {[1..n -> RawNames] : n \in 0..MaxRawFiles}
SizListings == {<< >>} \cup {<<f>> : f \in SizNames}

\* ---- the str operations the code uses ----
\* s.endswith(suffix)
EndsWith(s, suffix) ==
    /\ Len(s) >= Len(suffix)
    /\ SubSeq(s, Len(s) - Len(suffix) + 1, Len(s)) = suffix

\* s[: -len(suffix)]
StripSuffix(s, suffix) == SubSeq(s, 1, Len(s) - Len(suffix))

Occurrences(s, sub) ==
    {p \in 1..(Len(s) - Len(sub) + 1) : SubSeq(s, p, p + Len(sub) - 1) = sub}

\* sub in s
Contains(s, sub) == Occurrences(s, sub) # {}

\* s.partition(sep)[0]: the part before the first occurrence
PartitionHead(s, sep) ==
    IF Contains(s, sep)
    THEN SubSeq(s, 1, (CHOOSE p \in Occurrences(s, sep) :
                          \A q \in Occurrences(s, sep) : p <= q) - 1)
    ELSE s

\* s.replace(old, new): every occurrence, left to right, without overlap
RECURSIVE Replace(_, _, _)
Replace(s, old, new) ==
    IF Len(s) < Len(old) THEN s
    ELSE IF SubSeq(s, 1, Len(old)) = old
         THEN new \o Replace(SubSeq(s, Len(old) + 1, Len(s)), old, new)
         ELSE <<Head(s)>> \o Replace(Tail(s), old, new)

\* re.sub(r"/[^/]+$", "/", s): what follows the last "/" is dropped, if anything
RemoveFilename(s) ==
    LET slashes == {p \in 1..Len(s) : s[p] = "/"}
    IN  IF slashes = {} \/ Len(s) \in slashes
        THEN s
        ELSE SubSeq(s, 1, CHOOSE p \in slashes : \A q \in slashes : q <= p)

\* infer_output_dir
InferOutputDir(fastq_path) == RemoveFilename(Replace(fastq_path, RawSegment, SizSegment))

\* raw_dir = f"s3://{bucket}/{delivery}/raw/"
RawDir == <<"s3:", "/", "/">> \o bucket \o <<"/">> \o delivery \o RawSegment

\* siz_dir = f"s3://{bucket}/{delivery}/siz/"
SizDir == <<"s3:", "/", "/">> \o bucket \o <<"/">> \o delivery \o SizSegment

\* ---- generate_samplesheet, the pure parts ----
\* ids.setdefault(id, {})[which] = path; ids is a dict, kept in insertion order,
\* and a read that is not there is the empty string
SetRead(d, id, which, path) ==
    IF \E j \in 1..Len(d) : d[j].id = id
    THEN [j \in 1..Len(d) |-> IF d[j].id = id THEN [d[j] EXCEPT ![which] = path]
                                              ELSE d[j]]
    ELSE Append(d, [[id |-> id, R1 |-> << >>, R2 |-> << >>] EXCEPT ![which] = path])

\* for f in raw_files: the dict ids after the loop
RECURSIVE PairedIds(_, _)
PairedIds(files, raw_dir) ==
    IF files = << >> THEN << >>
    ELSE LET before == PairedIds(SubSeq(files, 1, Len(files) - 1), raw_dir)
             f == files[Len(files)]
         IN  IF EndsWith(f, R1Suffix)
             THEN SetRead(before, StripSuffix(f, R1Suffix), "R1", raw_dir \o f)
             ELSE IF EndsWith(f, R2Suffix)
                  THEN SetRead(before, StripSuffix(f, R2Suffix), "R2", raw_dir \o f)
                  ELSE before

\* ids_to_skip: if not ignore_existing, the part before "_chunk" of every siz file
IdsToSkip(files, ignore) ==
    IF ignore THEN {}
    ELSE {PartitionHead(files[j], ChunkMarker) :
            j \in {n \in 1..Len(files) : Contains(files[n], ChunkMarker)}}

\* (variant: one read is enough)
IsPairEither(reads) == reads.R1 # << >> \/ reads.R2 # << >>

\* if "R1" in reads and "R2" in reads
IsPair(reads) == reads.R1 # << >> /\ reads.R2 # << >>

\* if outdir: sample_outdir = outdir, else infer_output_dir(reads["R1"])
SampleOutdir(override, reads) ==
    IF override.given /\ override.path # << >>
    THEN override.path
    ELSE InferOutputDir(reads.R1)

\* samples.append({"id", "fastq_1", "fastq_2", "outdir"}) for every id that is not
\* skipped and has both reads, in the order of ids
Samples(d, skip, override) ==
    LET kept == SelectSeq(d, LAMBDA reads : reads.id \notin skip /\ IsPair(reads))
    IN  [j \in 1..Len(kept) |->
            [id |-> kept[j].id, fastq_1 |-> kept[j].R1, fastq_2 |-> kept[j].R2,
             outdir |-> SampleOutdir(override, kept[j])]]

\* (variant: no warning is written)
WarningsNone(d, skip) == << >>

\* sys.stderr.write(f"Warning: Incomplete pair for id {id}"): for every id that is
\* not skipped and lacks a read, in the order of ids
Warnings(d, skip) ==
    LET lacking == SelectSeq(d, LAMBDA reads : reads.id \notin skip /\ ~IsPair(reads))
    IN  [j \in 1..Len(lacking) |-> lacking[j].id]

S3Call(s3_path, allow_missing) == [s3_path |-> s3_path, allow_missing |-> allow_missing]

\* ---- initial state: generate_samplesheet is called with its arguments ----
InitSamplesheet ==
    /\ samples = << >>
    /\ max_retries = 0
    /\ dry_run = FALSE
    /\ pc = "main"
    /\ k = 1
    /\ job_tracker = << >>
    /\ job_ids = << >>
    /\ i = 0
    /\ response = {}
    /\ queries = << >>
    /\ active = {}
    /\ repoll = {}
    /\ submit_calls = [u \in Units |-> 0]
    /\ stdout = [u \in Units |-> Line(0, 0, 0)]
    /\ done_retry_count = [u \in Units |-> -1]
    /\ last_call = "none"
    /\ error = "none"
    /\ handle_reused = FALSE
    /\ entry_units = {}
    /\ final_line = [text |-> "", counts |-> << >>]
    /\ bucket \in Buckets
    /\ delivery \in Deliveries
    /\ outdir \in Outdirs
    /\ ignore_existing \in BOOLEAN
    /\ gpc = "called"
    /\ raw_files = << >>
    /\ siz_files = << >>
    /\ s3_calls = << >>
    /\ sheet = << >>
    /\ warned = << >>

supervision == <<samples, max_retries, dry_run, pc, k, job_tracker, round, history>>
args == <<bucket, delivery, outdir, ignore_existing>>

\* ---- generate_samplesheet ----
\* raw_files = list_s3_files(raw_dir, allow_missing=False, ...)
ListRaw ==
    /\ gpc = "called"
    /\ s3_calls' = Append(s3_calls, S3Call(RawDir, FALSE))
    /\ raw_files' \in RawListings
    /\ gpc' = "raw_listed"
    /\ UNCHANGED <<supervision, args, siz_files, sheet, warned>>

\* ... aws s3 ls fails: allow_missing is False, sys.exit(1)
ListRawFails ==
    /\ gpc = "called"
    /\ s3_calls' = Append(s3_calls, S3Call(RawDir, FALSE))
    /\ gpc' = "exit_1"
    /\ UNCHANGED <<supervision, args, raw_files, siz_files, sheet, warned>>

\* siz_files = list_s3_files(siz_dir, allow_missing=True, ...)
ListSiz ==
    /\ gpc = "raw_listed"
    /\ s3_calls' = Append(s3_calls, S3Call(SizDir, TRUE))
    /\ siz_files' \in SizListings
    /\ gpc' = "siz_listed"
    /\ UNCHANGED <<supervision, args, raw_files, sheet, warned>>

\* ... aws s3 ls fails: allow_missing is True, the listing is taken as empty
ListSizMissing ==
    /\ gpc = "raw_listed"
    /\ s3_calls' = Append(s3_calls, S3Call(SizDir, TRUE))
    /\ siz_files' = << >>
    /\ gpc' = "siz_missing"
    /\ UNCHANGED <<supervision, args, raw_files, sheet, warned>>

\* lines 68-109: pair up the reads, collect the ids to skip, build the samples
BuildSamples ==
    /\ gpc \in {"siz_listed", "siz_missing"}
    /\ LET ids == PairedIds(raw_files, RawDir)
           ids_to_skip == IdsToSkip(siz_files, ignore_existing)
       IN  /\ sheet' = Samples(ids, ids_to_skip, outdir)
           /\ warned' = Warnings(ids, ids_to_skip)
    /\ gpc' = "returned"
    /\ UNCHANGED <<supervision, args, raw_files, siz_files, s3_calls>>

NextSamplesheet ==
    \/ ListRaw
    \/ ListRawFails
    \/ ListSiz
    \/ ListSizMissing
    \/ BuildSamples

SpecSamplesheet == InitSamplesheet /\ [][NextSamplesheet]_vars

\* ======================= properties of the supervision =======================
\* Every branch of the for loop prints its own line (succeeded, retrying, failed
\* permanently), so stdout tells which statuses monitor_jobs has classified.
Succeeded(u) == stdout[u].succeeded > 0
FailedPermanently(u) == stdout[u].failed > 0
Terminal(u) == Succeeded(u) \/ FailedPermanently(u)
FailedSeen(u) == stdout[u].retrying + stdout[u].failed
SampleSet == {samples[j] : j \in 1..Len(samples)}
NotTerminal == {u \in SampleSet : ~Terminal(u)}
RetryCountOf(t, u) == t[CHOOSE j \in EntriesOf(t, u) : TRUE].retry_count

\* C1: during monitor_jobs every unit tracked at entry that has neither succeeded
\* nor failed permanently has exactly one entry in job_tracker, and a unit that
\* has reached its outcome has none; a retry replaces the entry.
C1_ExactlyOneEntry ==
    \A u \in entry_units :
        Cardinality(EntriesOf(job_tracker, u)) = (IF Terminal(u) THEN 0 ELSE 1)

\* a retried unit is tracked once, next to another unit, in the middle of a round
C1_Witness ==
    /\ pc = "for_info"
    /\ Len(job_tracker) = 2
    /\ \E u \in entry_units :
        /\ stdout[u].retrying > 0
        /\ ~Terminal(u)
        /\ Cardinality(EntriesOf(job_tracker, u)) = 1

\* C2 as stated: at every evaluation of the while condition the number of entries
\* equals the number of units not yet succeeded or permanently failed, whatever
\* handles the Batch Runner returns.
C2_CountAtRoundStart ==
    pc = "while" => Len(job_tracker) = Cardinality(NotTerminal)

\* C2 amended: the same, provided no submission returned a handle that was in
\* job_tracker at the time it was returned.
C2_CountAtRoundStartFreshHandles ==
    (pc = "while" /\ ~handle_reused) => Len(job_tracker) = Cardinality(NotTerminal)

\* a round starts after a retry and an outcome, all handles having been fresh
C2_Witness ==
    /\ pc = "while"
    /\ ~handle_reused
    /\ Len(job_tracker) = 1
    /\ Len(samples) = 2
    /\ \E u \in SampleSet : stdout[u].retrying > 0 /\ ~Terminal(u)

\* C3: a unit whose jobs reported FAILED exactly max_retries times and then
\* SUCCEEDED ended succeeded from an entry with retry_count = max_retries; a unit
\* whose jobs reported FAILED max_retries + 1 times is permanently failed, is no
\* longer tracked and has had max_retries + 1 submissions, in every later state.
C3_RetryBudget ==
    \A u \in entry_units :
        /\ (Succeeded(u) /\ FailedSeen(u) = max_retries)
              => (done_retry_count[u] = max_retries /\ ~FailedPermanently(u))
        /\ FailedSeen(u) = max_retries + 1
              => /\ FailedPermanently(u)
                 /\ ~Succeeded(u)
                 /\ EntriesOf(job_tracker, u) = {}
                 /\ submit_calls[u] = max_retries + 1

\* one unit succeeded on its last allowed attempt, another used up its budget
C3_Witness ==
    /\ max_retries >= 1
    /\ \E u \in entry_units :
        Succeeded(u) /\ FailedSeen(u) = max_retries /\ done_retry_count[u] = max_retries
    /\ \E u \in entry_units :
        FailedPermanently(u) /\ FailedSeen(u) = max_retries + 1

\* C4: monitor_jobs returns only with job_tracker empty, and then every unit that
\* was tracked at entry has succeeded or failed permanently.
C4_ReturnsWhenAllTerminal ==
    pc = "returned" =>
        /\ job_tracker = << >>
        /\ \A u \in entry_units : Terminal(u)

\* a return after two units were supervised, one to each outcome
C4_Witness ==
    /\ pc = "returned"
    /\ Cardinality(entry_units) = 2
    /\ \E u \in entry_units : Succeeded(u)
    /\ \E u \in entry_units : FailedPermanently(u)

\* The for loop has just handled the result of job_id: the result left the
\* response (or the handling raised).
Handled(job_id) ==
    /\ pc = "for_info"
    /\ job_id \in response
    /\ Has(job_tracker, job_id)
    /\ (response' = response \ {job_id} \/ pc' = "raised")

\* ... and its status was FAILED: one of the two FAILED branches printed its line
HandledFailed(job_id) ==
    /\ Handled(job_id)
    /\ LET u == Get(job_tracker, job_id).sample
       IN  stdout'[u].retrying + stdout'[u].failed
              = stdout[u].retrying + stdout[u].failed + 1

\* C5: when no Batch Runner call raises and every polled job is eventually
\* reported SUCCEEDED or FAILED, monitor_jobs, once entered, reaches an empty
\* job_tracker and returns.
C5_Converges == (pc = "while") ~> (pc = "returned" /\ job_tracker = << >>)

\* monitor_jobs returned after supervising two units, one of them through a retry
C5_Witness ==
    /\ pc = "returned"
    /\ job_tracker = << >>
    /\ Cardinality(entry_units) = 2
    /\ \E u \in entry_units : stdout[u].retrying > 0


\* C6 as stated: when supervision has completed, the process has reported a
\* summary whose two counts are the numbers of units that succeeded and that
\* failed permanently (so they sum to the number of units submitted).
C6_SummaryReported ==
    (pc = "exit" /\ entry_units # {}) =>
        /\ Len(final_line.counts) = 2
        /\ final_line.counts[1] = Cardinality({u \in SampleSet : Succeeded(u)})
        /\ final_line.counts[2] = Cardinality({u \in SampleSet : FailedPermanently(u)})

\* C7: when a tracked job reports FAILED with retry_count < max_retries and the
\* resubmission returns a handle, the sample was submitted exactly once more, the
\* new handle holds the same sample with retry_count + 1, the old handle is gone
\* and no other entry changed; along a unit's retry chain retry_count grows by
\* exactly 1 at each retry and changes at no other step.
C7_RetryReplacesEntry ==
    [][ /\ \A job_id \in Handles :
            (/\ HandledFailed(job_id)
             /\ Get(job_tracker, job_id).retry_count < max_retries
             /\ pc' # "raised")
            => LET old == Get(job_tracker, job_id)
               IN  /\ submit_calls' = [submit_calls EXCEPT ![old.sample] = @ + 1]
                   /\ ~Has(job_tracker', job_id)
                   /\ \E new_job_id \in Handles :
                        /\ Has(job_tracker', new_job_id)
                        /\ Get(job_tracker', new_job_id)
                              = Entry(new_job_id, old.sample, old.retry_count + 1)
                        /\ \A h \in Handles \ {job_id, new_job_id} :
                              /\ Has(job_tracker', h) <=> Has(job_tracker, h)
                              /\ Has(job_tracker, h)
                                    => Get(job_tracker', h) = Get(job_tracker, h)
                   /\ Cardinality(EntriesOf(job_tracker', old.sample)) = 1
        /\ \A u \in entry_units :
            (EntriesOf(job_tracker, u) # {} /\ EntriesOf(job_tracker', u) # {})
            => IF stdout'[u].retrying = stdout[u].retrying + 1 /\ pc' # "raised"
               THEN RetryCountOf(job_tracker', u) = RetryCountOf(job_tracker, u) + 1
               ELSE RetryCountOf(job_tracker', u) = RetryCountOf(job_tracker, u)
      ]_vars

\* a unit was retried and is tracked with retry_count 1 next to another unit
C7_Witness ==
    /\ \E u \in entry_units :
        /\ EntriesOf(job_tracker, u) # {}
        /\ RetryCountOf(job_tracker, u) = 1
        /\ submit_calls[u] = 2
    /\ Len(job_tracker) = 2

\* C8: when a tracked job reports FAILED with retry_count >= max_retries, its entry
\* is removed, the permanent-failure line is printed and no submission is made;
\* and once a unit has failed permanently it is never submitted or tracked again.
C8_NoRetryPastBudget ==
    [][ /\ \A job_id \in Handles :
            (/\ HandledFailed(job_id)
             /\ Get(job_tracker, job_id).retry_count >= max_retries)
            => LET old == Get(job_tracker, job_id)
               IN  /\ submit_calls' = submit_calls
                   /\ ~Has(job_tracker', job_id)
                   /\ Len(job_tracker') = Len(job_tracker) - 1
                   /\ stdout'[old.sample].failed = stdout[old.sample].failed + 1
                   /\ pc' # "raised"
        /\ \A u \in SampleSet :
            FailedPermanently(u)
            => /\ submit_calls'[u] = submit_calls[u]
               /\ EntriesOf(job_tracker', u) = {}
      ]_vars

\* a unit failed permanently after a retry, while another unit is still supervised
C8_Witness ==
    /\ \E u \in entry_units :
        FailedPermanently(u) /\ stdout[u].retrying > 0 /\ EntriesOf(job_tracker, u) = {}
    /\ Len(job_tracker) = 1
    /\ pc = "for_batch"

\* C9: outside dry mode, a unit that main has submitted has had 1 submission plus
\* one per FAILED status seen while retry_count < max_retries, so at most
\* max_retries + 1; a submission in monitor_jobs is always the handling of a
\* FAILED result of that unit (never of a running job), and a unit that has
\* succeeded or failed permanently is not submitted again.
C9_NoDuplicateWork ==
    /\ [](\A j \in 1..Len(samples) :
            (~dry_run /\ (j < k \/ submit_calls[samples[j]] > 0))
            => /\ submit_calls[samples[j]] = 1 + stdout[samples[j]].retrying
               /\ submit_calls[samples[j]] <= max_retries + 1)
    /\ [][ \A u \in SampleSet :
            /\ Terminal(u) => submit_calls'[u] = submit_calls[u]
            /\ (submit_calls'[u] # submit_calls[u] /\ pc # "main_submit")
               => \E job_id \in Handles :
                    /\ HandledFailed(job_id)
                    /\ Get(job_tracker, job_id).sample = u
                    /\ Get(job_tracker, job_id).retry_count < max_retries
                    /\ submit_calls'[u] = submit_calls[u] + 1
         ]_vars

\* a run in which one unit used every retry and the other succeeded at once
C9_Witness ==
    /\ pc = "returned"
    /\ max_retries >= 1
    /\ \E u \in entry_units : submit_calls[u] = max_retries + 1
    /\ \E u \in entry_units : submit_calls[u] = 1 /\ Succeeded(u)

\* C10: once describe_jobs has raised, the failing call stays the last Batch
\* Runner call (no later query, no later submission), monitor_jobs has not
\* returned, and nothing changes any more.
C10_DescribeFailureHalts ==
    /\ [](error = "describe_jobs"
            => /\ pc = "raised"
               /\ last_call = "describe_jobs_error")
    /\ [][ error = "describe_jobs" => UNCHANGED vars ]_vars

\* describe_jobs raised in a later round, with a retried job still tracked
C10_Witness ==
    /\ error = "describe_jobs"
    /\ pc = "raised"
    /\ Len(job_tracker) >= 1
    /\ \E u \in entry_units : stdout[u].retrying > 0 /\ EntriesOf(job_tracker, u) # {}

\* C11: in dry mode submit_batch_job makes no Batch Runner call and returns the
\* placeholder derived from the sample id (the same one whenever it is asked for
\* the same sample, a different one for a different sample, never a Batch Runner
\* handle); outside dry mode it makes exactly one submit_job call and returns the
\* handle that call gave.
C11_DryRunMakesNoCall ==
    /\ [](dry_run =>
            /\ \A u \in Units : submit_calls[u] = 0
            /\ last_call = "none"
            /\ Keys(job_tracker) \cap Handles = {}
            /\ pc = "main_submit" =>
                  /\ Len(job_tracker) = k - 1
                  /\ \A j \in 1..(k - 1) :
                        /\ Has(job_tracker, DryRunHandle(samples[j]))
                        /\ Get(job_tracker, DryRunHandle(samples[j])).sample = samples[j])
    /\ [][ (pc = "main_submit" /\ k' = k + 1) =>
            IF dry_run
            THEN /\ submit_calls' = submit_calls
                 /\ last_call' = last_call
                 /\ job_tracker' = Append(job_tracker,
                        Entry(DryRunHandle(samples[k]), samples[k], 0))
            ELSE /\ submit_calls' = [submit_calls EXCEPT ![samples[k]] = @ + 1]
                 /\ last_call' = "submit_job"
                 /\ \E job_id \in Handles :
                        /\ Has(job_tracker', job_id)
                        /\ Get(job_tracker', job_id) = Entry(job_id, samples[k], 0)
         ]_vars

\* a dry run has gone through two samples without a Batch Runner call
C11_Witness ==
    /\ dry_run
    /\ pc = "exit"
    /\ Len(job_tracker) = 2
    /\ last_call = "none"

\* ==================== properties of generate_samplesheet ====================
SheetIds == {sheet[j].id : j \in 1..Len(sheet)}
WarnedIds == {warned[j] : j \in 1..Len(warned)}

\* the raw listing holds the member of id with this suffix
HasRead(id, suffix) == \E j \in 1..Len(raw_files) : raw_files[j] = id \o suffix

\* the ids that have a member in the raw listing
RawIds ==
    {StripSuffix(raw_files[j], R1Suffix) :
        j \in {n \in 1..Len(raw_files) : EndsWith(raw_files[n], R1Suffix)}}
    \cup {StripSuffix(raw_files[j], R2Suffix) :
        j \in {n \in 1..Len(raw_files) : EndsWith(raw_files[n], R2Suffix)}}

\* the done listing holds a filename made of id followed by "_chunk"
HasDoneFile(id) ==
    \E j \in 1..Len(siz_files) :
        /\ Len(siz_files[j]) >= Len(id) + Len(ChunkMarker)
        /\ SubSeq(siz_files[j], 1, Len(id) + Len(ChunkMarker)) = id \o ChunkMarker

\* C12: the result holds exactly one sample for each id that has both members in
\* the raw listing and is not in ids_to_skip, built from those two members, and
\* no sample for any other id: ids are pairwise distinct and a filename with
\* neither suffix contributes nothing.
C12_OneSamplePerCompletePair ==
    gpc = "returned" =>
        LET eligible == {id \in RawIds :
                            /\ HasRead(id, R1Suffix)
                            /\ HasRead(id, R2Suffix)
                            /\ id \notin IdsToSkip(siz_files, ignore_existing)}
        IN  /\ SheetIds = eligible
            /\ Len(sheet) = Cardinality(eligible)
            /\ \A j \in 1..Len(sheet) :
                /\ sheet[j].fastq_1 = RawDir \o sheet[j].id \o R1Suffix
                /\ sheet[j].fastq_2 = RawDir \o sheet[j].id \o R2Suffix

\* one complete pair is in the result, next to a file with neither suffix and to
\* a lone member of another id
C12_Witness ==
    /\ gpc = "returned"
    /\ Len(sheet) = 1
    /\ Cardinality(RawIds) = 2
    /\ \E j \in 1..Len(raw_files) :
        ~EndsWith(raw_files[j], R1Suffix) /\ ~EndsWith(raw_files[j], R2Suffix)

\* C13 as stated: every id with both members in the raw listing and a done file
\* "<id>_chunk..." is absent from the result when ignore_existing is false and
\* present when it is true, whatever the id is.
C13_DoneIdsSkipped ==
    gpc = "returned" =>
        \A id \in RawIds :
            (HasRead(id, R1Suffix) /\ HasRead(id, R2Suffix) /\ HasDoneFile(id))
            => (id \in SheetIds <=> ignore_existing)

\* C14 as stated: every id with only one of its two members in the raw listing is
\* warned about and is not in the result.
C14_IncompletePairWarned ==
    gpc = "returned" =>
        \A id \in RawIds :
            (HasRead(id, R1Suffix) # HasRead(id, R2Suffix))
            => (id \in WarnedIds /\ id \notin SheetIds)

\* C14 amended: every such id is not in the result; it is warned about exactly
\* when it is not in ids_to_skip (an id with a done file is skipped in silence
\* unless ignore_existing is set).
C14_IncompletePairWarnedUnlessSkipped ==
    gpc = "returned" =>
        \A id \in RawIds :
            (HasRead(id, R1Suffix) # HasRead(id, R2Suffix))
            => /\ id \notin SheetIds
               /\ id \in WarnedIds <=> id \notin IdsToSkip(siz_files, ignore_existing)

\* a lone member is warned about while another id is skipped as done
C14_Witness ==
    /\ gpc = "returned"
    /\ IdsToSkip(siz_files, ignore_existing) # {}
    /\ \E id \in RawIds :
        /\ HasRead(id, R1Suffix)
        /\ ~HasRead(id, R2Suffix)
        /\ id \in WarnedIds
        /\ id \notin SheetIds

\* C15 as stated: with a custom outdir, the raw prefix is listed with
\* allow_missing=False and then the custom outdir, not the default siz prefix, is
\* listed with allow_missing=True as the evidence of what is done.
C15_DoneListingFromCustomOutdir ==
    (gpc \in {"siz_listed", "siz_missing", "returned"}
        /\ outdir.given /\ outdir.path # << >>)
    => s3_calls = <<S3Call(RawDir, FALSE), S3Call(outdir.path, TRUE)>>

\* C16 as stated: every sample has the override as outdir whenever one is given;
\* otherwise its outdir is the siz prefix that was listed, whatever the bucket
\* and the delivery are.
C16_OutdirOverrideOrSizPrefix ==
    gpc = "returned" =>
        \A j \in 1..Len(sheet) :
            IF outdir.given
            THEN sheet[j].outdir = outdir.path
            ELSE /\ sheet[j].outdir = SizDir
                 /\ sheet[j].outdir = s3_calls[2].s3_path

\* ==================== properties of the polling ====================
RECURSIVE Concat(_)
Concat(seqs) == IF seqs = << >> THEN << >> ELSE Head(seqs) \o Concat(Tail(seqs))

\* the for loop over the batches of job_ids is exhausted
RoundComplete == pc = "for_batch" /\ i >= Len(job_ids)

\* C17: every describe_jobs call of a round takes between 1 and 100 handles; the
\* handles taken at the start of a round are the keys of job_tracker at that
\* moment, each once; and when the round is complete the calls of the round,
\* one after the other, hold exactly those handles, each in one call only.
C17_QueriesCoverTracker ==
    /\ [](\A q \in 1..Len(queries) :
             Len(queries[q]) >= 1 /\ Len(queries[q]) <= BatchSize)
    /\ [](Cardinality({job_ids[n] : n \in 1..Len(job_ids)}) = Len(job_ids))
    /\ [](RoundComplete => Concat(queries) = job_ids)
    /\ [][ (pc = "while" /\ pc' = "for_batch")
            => (job_ids' = KeyList(job_tracker) /\ queries' = << >>) ]_vars

\* a round over exactly two full batches is complete after two calls
C17_Witness ==
    /\ RoundComplete
    /\ Len(job_ids) = 2 * BatchSize
    /\ Len(queries) = 2
    /\ Len(queries[2]) = BatchSize

\* the samples that a result (job_id, status) adds to the printed outcomes
Reported(out, t, job_id, status) ==
    LET tracked == Get(t, job_id)
    IN  IF status = "SUCCEEDED"
        THEN [out EXCEPT !.succeeded = @ \cup {tracked.sample}]
        ELSE IF status = "FAILED"
             THEN IF ShouldRetry(tracked.retry_count)
                  THEN [out EXCEPT !.retried =
                           @ \cup {<<tracked.sample, tracked.retry_count + 1>>}]
                  ELSE [out EXCEPT !.failed = @ \cup {tracked.sample}]
             ELSE out

\* the for loop over a whole response whose results come in this order, every
\* resubmission returning a handle that is not tracked: what was reported, and
\* which samples are tracked afterwards with which retry_count
RECURSIVE AfterResponse(_, _, _, _)
AfterResponse(t, out, order, status) ==
    IF order = << >>
    THEN [out EXCEPT !.tracked = {<<t[j].sample, t[j].retry_count>> : j \in 1..Len(t)}]
    ELSE LET job_id == Head(order)
             new_job_id == CHOOSE h \in Handles \ Keys(t) : TRUE
         IN  AfterResponse(HandleResult(t, job_id, status[job_id], new_job_id),
                           Reported(out, t, job_id, status[job_id]),
                           Tail(order), status)

NothingReported == [succeeded |-> {}, retried |-> {}, failed |-> {}, tracked |-> {}]

Orders(S) == {o \in [1..Cardinality(S) -> S] : \A h \in S : \E j \in DOMAIN o : o[j] = h}

\* a response has just arrived and none of its results has been handled
ResponseArrived ==
    /\ pc = "for_info"
    /\ queries # << >>
    /\ response = DescribeJobs(queries[Len(queries)])

\* C18: whatever statuses a response carries, handling its results in any two
\* orders leaves the same samples succeeded, retried (to the same retry_count),
\* permanently failed and tracked; and every step of the for loop is the handling
\* of the result of one tracked handle, found by its key.
C18_OrderOfResultsIrrelevant ==
    /\ [](ResponseArrived =>
            \A status \in [response -> Statuses] :
                \A o1, o2 \in Orders(response) :
                    AfterResponse(job_tracker, NothingReported, o1, status)
                        = AfterResponse(job_tracker, NothingReported, o2, status))
    /\ [][ \A job_id \in Handles :
            (Handled(job_id) /\ pc' # "raised")
            => \E status \in Statuses, new_job_id \in Handles :
                  job_tracker' = HandleResult(job_tracker, job_id, status, new_job_id) ]_vars

\* a response for two jobs has arrived, one of them a retry that has used up the
\* budget, the other on its first attempt
C18_Witness ==
    /\ ResponseArrived
    /\ Cardinality(response) = 2
    /\ max_retries = 1
    /\ \E h1, h2 \in response :
        Get(job_tracker, h1).retry_count = 0 /\ Get(job_tracker, h2).retry_count = 1

\* C19: the handling of a result with a status other than SUCCEEDED and FAILED
\* changes nothing in job_tracker, makes no Batch Runner call and prints none of
\* the three lines; the entry stays as it is, under the same handle, until the
\* next round, and in that round the handle is among those queried again.
C19_ActiveJobPolledAgain ==
    /\ [][ \A job_id \in Handles :
            (Handled(job_id) /\ active' # active)
            => /\ active' = active \cup {Get(job_tracker, job_id)}
               /\ job_tracker' = job_tracker
               /\ submit_calls' = submit_calls
               /\ last_call' = last_call
               /\ stdout' = stdout
               /\ pc' = pc ]_vars
    /\ [](\A e \in active \cup repoll :
            Has(job_tracker, e.job_id) /\ Get(job_tracker, e.job_id) = e)
    /\ []((RoundComplete \/ pc = "while") => repoll = {})
    /\ [][ (pc = "while" /\ pc' = "for_batch")
            => \A e \in active : \E n \in 1..Len(job_ids') : job_ids'[n] = e.job_id ]_vars

\* a round starts with a retried job to be polled again next to a first attempt
C19_Witness ==
    /\ pc = "for_batch"
    /\ Cardinality(repoll) = 2
    /\ \E e \in repoll : e.retry_count = 1
    /\ \E e \in repoll : e.retry_count = 0

\* the handles of job_ids whose results the round has still to handle
Pending ==
    IF pc = "for_info"
    THEN response \cup {job_ids[n] : n \in (i + BatchSize + 1)..Len(job_ids)}
    ELSE IF pc = "for_batch"
         THEN {job_ids[n] : n \in (i + 1)..Len(job_ids)}
         ELSE {}

\* C20: whatever handles the Batch Runner returns, every handle whose result the
\* round has still to handle is a key of job_tracker (so no lookup and no del of
\* lines 77-100 meets a missing key), the results left of a response are results
\* of its own query, and a handle whose result was handled is not met again in
\* the round.
C20_NoLookupOfAbsentHandle ==
    /\ [](\A job_id \in Pending : Has(job_tracker, job_id))
    /\ [](pc = "for_info" => response \subseteq DescribeJobs(BatchIds(job_ids, i)))
    /\ [][ \A job_id \in Handles :
            (Handled(job_id) /\ pc' # "raised") => job_id \notin Pending' ]_vars

\* a retry was given the handle of a job whose result is still to be handled
C20_Witness ==
    /\ pc = "for_info"
    /\ handle_reused
    /\ Len(job_ids) = 2
    /\ Cardinality(response) = 1
    /\ response = Keys(job_tracker)
    /\ \A job_id \in response : Get(job_tracker, job_id).retry_count = 1

\* submit_job raised while monitor_jobs was handling a result
ResubmissionRaised == error = "submit_job" /\ job_ids # << >>

\* C21: when submit_job raises during a retry, the step leaves job_tracker as it
\* was and ends monitor_jobs with the exception (it does not return); the failed
\* job is then still tracked under its handle with the retry_count it had (one
\* less than the retry lines printed for its sample), its sample has no other
\* entry, and nothing changes afterwards.
C21_ResubmissionFailurePropagates ==
    /\ [][ (error = "none" /\ error' = "submit_job" /\ pc = "for_info")
            => /\ job_tracker' = job_tracker
               /\ pc' = "raised"
               /\ last_call' = "submit_job_error" ]_vars
    /\ [](ResubmissionRaised =>
            /\ pc = "raised"
            /\ \E job_id \in response :
                /\ Has(job_tracker, job_id)
                /\ LET tracked == Get(job_tracker, job_id)
                   IN  /\ tracked.retry_count < max_retries
                       /\ tracked.retry_count = stdout[tracked.sample].retrying - 1
                       /\ submit_calls[tracked.sample] = tracked.retry_count + 2
                       /\ Cardinality(EntriesOf(job_tracker, tracked.sample)) = 1)
    /\ [][ ResubmissionRaised => UNCHANGED vars ]_vars

\* the resubmission of a job on its first attempt raised, next to another job
C21_Witness ==
    /\ ResubmissionRaised
    /\ Len(job_tracker) = 2
    /\ \E job_id \in response :
        /\ Has(job_tracker, job_id)
        /\ Get(job_tracker, job_id).retry_count = 0
        /\ stdout[Get(job_tracker, job_id).sample].retrying = 1

====
